---- MODULE Spec2Model ----
(***************************************************************************)
(* License issuance and validation of cython-poc.                          *)
(*                                                                         *)
(* The issuer (server-application) generates RSA key pairs and writes      *)
(* signed license files; the verifier (client-application) loads a license *)
(* file, resolves a public key, and runs the ordered decision procedure    *)
(* validate_license.  Python values are modelled as tagged records, Python *)
(* exceptions as results [exc |-> name], RSA/SHA-256/base64 symbolically   *)
(* (a signature names the key that made it and the digest it was made      *)
(* over; a digest names the bytes it was computed from).                   *)
(***************************************************************************)
EXTENDS Integers, Sequences, FiniteSets, TLC

VARIABLES
    privFile,     \* issuer keys/priv.pem: file content
    pubFile,      \* issuer keys/pub.pem: file content
    keyCounter,   \* number of RSA key pairs generated so far
    licFile,      \* the license file (written by the issuer, read by the client)
    clientPub,    \* client pub.pem: file content
    embedded,     \* client embedded_pubkey (Python str or None)
    last,         \* the last call made and what it returned
    genCalls      \* the generate_keys invocations in progress, per issuer process

vars == <<privFile, pubFile, keyCounter, licFile, clientPub, embedded, last, genCalls>>

----------------------------------------------------------------------------
(* Bounds of the model *)

NumKeys == 2        \* key pairs RSA.generate can hand out
MaxDay == 2         \* expiry dates are the days 1..MaxDay
MaxDrift == 1       \* ticks the clock may advance between two reads in one call
MaxBinds == 1       \* entries in a license's mac list and in its host list

\* Clock instants per calendar day: a call takes less than a day
TicksPerDay == MaxDrift + 1

Keys == 1..NumKeys
Days == 1..MaxDay
MaxClock == (MaxDay + 1) * TicksPerDay
Clock == 0..MaxClock

----------------------------------------------------------------------------
(* Python / JSON values *)

PyNone == [t |-> "none"]
PyStr(s) == [t |-> "str", v |-> s]
PyList(xs) == [t |-> "list", v |-> xs]
PyDict(pairs) == [t |-> "dict", v |-> pairs]     \* insertion-ordered <<key, value>> pairs

Ok(v) == [exc |-> "", val |-> v]
Raise(e) == [exc |-> e]

\* bool(x) for the lists and dicts the code tests
Truthy(x) ==
    CASE x.t = "none" -> FALSE
      [] x.t = "list" -> x.v # <<>>
      [] x.t = "dict" -> x.v # <<>>

HasKey(d, k) == \E i \in 1..Len(d.v) : d.v[i][1] = k
Lookup(d, k) == d.v[CHOOSE i \in 1..Len(d.v) : d.v[i][1] = k][2]

\* d[k]
DictIndex(d, k) ==
    IF d.t # "dict" THEN Raise("TypeError")
    ELSE IF HasKey(d, k) THEN Ok(Lookup(d, k))
    ELSE Raise("KeyError")

\* d.get(k, default)
DictGet(d, k, default) ==
    IF d.t # "dict" THEN Raise("AttributeError")
    ELSE IF HasKey(d, k) THEN Ok(Lookup(d, k))
    ELSE Ok(default)

\* str.lower() on the strings of the model
Lower(s) ==
    CASE s = "AA:BB:CC:DD:EE:FF" -> "aa:bb:cc:dd:ee:ff"
      [] s = "Build-01" -> "build-01"
      [] s = "BUILD-01" -> "build-01"
      [] OTHER -> s

\* [x.lower() for x in xs]
LowerAll(xs) == [i \in 1..Len(xs) |-> Lower(xs[i].v)]

InSeq(x, xs) == \E i \in 1..Len(xs) : xs[i] = x

----------------------------------------------------------------------------
(* Dates and the clock.  An instant is a number of ticks since day 0,       *)
(* 00:00 UTC; the ISO string of day d is "2000-01-0d".                      *)

DateStr(d) == "2000-01-0" \o ToString(d)

\* datetime.fromisoformat(s)
FromIsoFormat(s) ==
    IF \E d \in 0..9 : s = DateStr(d)
    THEN Ok((CHOOSE d \in 0..9 : s = DateStr(d)) * TicksPerDay)
    ELSE Raise("ValueError")

----------------------------------------------------------------------------
(* json.dumps(x, sort_keys=True): the text, as the tree with every dict's   *)
(* pairs in lexicographic key order.                                        *)

KeyRank(k) ==
    CASE k = "binds" -> 1
      [] k = "customer" -> 2
      [] k = "expiry" -> 3
      [] k = "host" -> 4
      [] k = "mac" -> 5
      [] k = "payload" -> 6
      [] k = "signature" -> 7

KeyBefore(p, q) == KeyRank(p[1]) < KeyRank(q[1])

RECURSIVE JsonDumpsSorted(_)
JsonDumpsSorted(x) ==
    IF x.t = "dict"
    THEN LET sorted == SortSeq(x.v, KeyBefore)
         IN  [t |-> "dict",
              v |-> [i \in 1..Len(sorted) |->
                        <<sorted[i][1], JsonDumpsSorted(sorted[i][2])>>]]
    ELSE x

\* SHA256.new(data)
SHA256(data) == [sha256 |-> data]

----------------------------------------------------------------------------
(* Files and key material.  A file is absent or holds bytes; PEM bytes name *)
(* the key pair they encode and whether they hold the private half.         *)

Absent == [kind |-> "absent"]
Empty == [kind |-> "empty"]                          \* zero bytes / the empty string
Garbage == [kind |-> "garbage"]                      \* bytes that are no PEM key
Pem(k, priv) == [kind |-> "pem", key |-> k, private |-> priv]

Exists(f) == f.kind # "absent"

\* RSA.import_key(data)
import_key(data) ==
    IF data.kind = "pem"
    THEN Ok([key |-> data.key, private |-> data.private])
    ELSE Raise("ValueError")

\* key.export_key() / key.publickey().export_key()
export_key(k, priv) == Pem(k, priv)

\* pkcs1_15.new(key).sign(h)
pkcs1_15_sign(key, h) ==
    IF key.private
    THEN Ok([kind |-> "rsa", key |-> key.key, digest |-> h])
    ELSE Raise("TypeError")

\* pkcs1_15.new(key).verify(h, signature): returns, or raises ValueError
pkcs1_15_verify(key, h, signature) ==
    IF signature.kind # "rsa" THEN Raise("ValueError")            \* wrong length
    ELSE IF signature.key # key.key THEN Raise("ValueError")
    ELSE IF signature.digest # h THEN Raise("ValueError")
    ELSE Ok(TRUE)

\* base64.b64encode(raw).decode('utf-8')
b64encode(raw) == PyStr([kind |-> "b64", raw |-> raw])

\* base64.b64decode(s)
b64decode(s) ==
    IF s.t # "str" THEN Raise("TypeError")
    ELSE IF s.v.kind = "b64" THEN Ok(s.v.raw)
    ELSE Raise("ValueError")                                      \* binascii.Error

NotBase64 == PyStr([kind |-> "notb64"])
ShortSignature == b64encode([kind |-> "short"])

----------------------------------------------------------------------------
(* server-application/models/license_model.py *)

\* to_dict that keeps empty lists
server_to_dict_KeepsEmpty(b) ==
    PyDict(<< <<"mac", b.mac>>, <<"host", b.host>> >>)

server_to_dict(b) ==
    PyDict((IF Truthy(b.mac) THEN << <<"mac", b.mac>> >> ELSE <<>>)
           \o (IF Truthy(b.host) THEN << <<"host", b.host>> >> ELSE <<>>))

server_get_payload(lic) ==
    PyDict(<< <<"customer", lic.customer>>,
              <<"expiry", lic.expiry>>,
              <<"binds", server_to_dict(lic.bindings)>> >>)

to_license_file(lic) ==
    PyDict(<< <<"payload", server_get_payload(lic)>>,
              <<"signature", lic.signature>> >>)

----------------------------------------------------------------------------
(* server-application/utils/crypto_utils.py *)

\* CryptoUtils.load_private_key
load_private_key(f) ==
    IF ~Exists(f) THEN Raise("FileNotFoundError") ELSE import_key(f)

\* CryptoUtils.sign_data
sign_data(data, private_key) ==
    LET json_str == JsonDumpsSorted(data)
        h == SHA256(json_str)
        signature == pkcs1_15_sign(private_key, h)
    IN  IF signature.exc # "" THEN signature
        ELSE Ok(b64encode(signature.val))

----------------------------------------------------------------------------
(* client-application/models/license_model.py *)

\* to_dict that keeps empty lists
client_to_dict_KeepsEmpty(b) ==
    PyDict(<< <<"mac", b.mac>>, <<"host", b.host>> >>)

client_to_dict(b) ==
    PyDict((IF Truthy(b.mac) THEN << <<"mac", b.mac>> >> ELSE <<>>)
           \o (IF Truthy(b.host) THEN << <<"host", b.host>> >> ELSE <<>>))

from_dict(data) ==
    LET mac == DictGet(data, "mac", PyList(<<>>))
        host == DictGet(data, "host", PyList(<<>>))
    IN  IF mac.exc # "" THEN mac
        ELSE IF host.exc # "" THEN host
        ELSE Ok([mac |-> mac.val, host |-> host.val])

has_bindings(b) == Truthy(b.mac) \/ Truthy(b.host)

client_get_payload(lic) ==
    PyDict(<< <<"customer", lic.customer>>,
              <<"expiry", lic.expiry>>,
              <<"binds", client_to_dict(lic.bindings)>> >>)

from_license_file(data) ==
    LET payload == DictIndex(data, "payload")
    IN  IF payload.exc # "" THEN payload
        ELSE
        LET customer == DictIndex(payload.val, "customer")
        IN  IF customer.exc # "" THEN customer
            ELSE
            LET expiry == DictIndex(payload.val, "expiry")
            IN  IF expiry.exc # "" THEN expiry
                ELSE
                LET binds == DictGet(payload.val, "binds", PyDict(<<>>))
                IN  IF binds.exc # "" THEN binds
                    ELSE
                    LET bindings == from_dict(binds.val)
                    IN  IF bindings.exc # "" THEN bindings
                        ELSE
                        LET signature == DictGet(data, "signature", PyNone)
                        IN  IF signature.exc # "" THEN signature
                            ELSE Ok([customer |-> customer.val,
                                     expiry |-> expiry.val,
                                     bindings |-> bindings.val,
                                     signature |-> signature.val])

get_expiry_date(lic) == FromIsoFormat(lic.expiry.v)

\* is_expired with >= for >
is_expired_Inclusive(lic, now) ==
    LET d == get_expiry_date(lic)
    IN  IF d.exc # "" THEN d ELSE Ok(now >= d.val)

\* is_expired, with the instant datetime.utcnow() returns
is_expired(lic, now) ==
    LET d == get_expiry_date(lic)
    IN  IF d.exc # "" THEN d ELSE Ok(now > d.val)

\* days_until_expiry: timedelta.days is the floor of the difference in days
days_until_expiry(lic, now) ==
    LET d == get_expiry_date(lic)
    IN  IF d.exc # "" THEN d ELSE Ok((d.val - now) \div TicksPerDay)

----------------------------------------------------------------------------
(* client-application/utils/machine_utils.py.  uuid.getnode() is a 48-bit   *)
(* integer, held as its six octets, most significant first.                 *)

HexDigit(n) ==
    CASE n < 10 -> ToString(n)
      [] n = 10 -> "a" [] n = 11 -> "b" [] n = 12 -> "c"
      [] n = 13 -> "d" [] n = 14 -> "e" [] n = 15 -> "f"

\* f"{octet:02x}"
Hex02(octet) == HexDigit(octet \div 16) \o HexDigit(octet % 16)

get_primary_mac(node) ==
    Lower(Hex02(node[1]) \o ":" \o Hex02(node[2]) \o ":" \o Hex02(node[3]) \o ":"
          \o Hex02(node[4]) \o ":" \o Hex02(node[5]) \o ":" \o Hex02(node[6]))

get_hostname(name) == Lower(name)

----------------------------------------------------------------------------
(* client-application/services/license_service.py *)

\* if self.embedded_pubkey: (None and the empty string are false)
EmbeddedPresent(emb) == emb.t = "str" /\ emb.v.kind # "empty"

\* get_public_key that prefers the key file
get_public_key_FileFirst(emb, pubf) ==
    IF Exists(pubf)
    THEN [exc |-> "", val |-> pubf, readPub |-> TRUE]
    ELSE IF EmbeddedPresent(emb)
         THEN [exc |-> "", val |-> emb.v, readPub |-> TRUE]
         ELSE [exc |-> "FileNotFoundError", readPub |-> TRUE]

\* get_public_key: [exc, val, readPub]; readPub says the key file was opened
get_public_key(emb, pubf) ==
    IF EmbeddedPresent(emb)
    THEN [exc |-> "", val |-> emb.v, readPub |-> FALSE]
    ELSE IF ~Exists(pubf)
         THEN [exc |-> "FileNotFoundError", readPub |-> TRUE]
         ELSE [exc |-> "", val |-> pubf, readPub |-> TRUE]

\* A license file is absent, or holds undecodable bytes, text that is not
\* JSON, or a JSON document.
NotUtf8 == [kind |-> "binary"]
NotJson == [kind |-> "text"]
JsonFile(doc) == [kind |-> "json", doc |-> doc]

\* json.load(f) on an open file
json_load(f) ==
    CASE f.kind = "binary" -> Raise("UnicodeDecodeError")
      [] f.kind = "text" -> Raise("JSONDecodeError")
      [] f.kind = "json" -> Ok(f.doc)

load_license(f) ==
    IF ~Exists(f) THEN Raise("FileNotFoundError")
    ELSE LET data == json_load(f)
         IN  IF data.exc # "" THEN data ELSE from_license_file(data.val)

\* verify_signature that decodes the signature and never verifies it
verify_signature_NoVerify(lic, emb, pubf) ==
    LET pubkey_pem == get_public_key(emb, pubf)
        Caught(e) == e \in {"ValueError", "TypeError"}
        Out(r) == IF Caught(r.exc)
                  THEN [exc |-> "", val |-> FALSE, readPub |-> pubkey_pem.readPub]
                  ELSE [exc |-> r.exc, readPub |-> pubkey_pem.readPub]
    IN  IF pubkey_pem.exc # "" THEN Out(pubkey_pem)
        ELSE
        LET public_key == import_key(pubkey_pem.val)
        IN  IF public_key.exc # "" THEN Out(public_key)
            ELSE
            LET payload == client_get_payload(lic)
                json_str == JsonDumpsSorted(payload)
                h == SHA256(json_str)
                signature == b64decode(lic.signature)
            IN  IF signature.exc # "" THEN Out(signature)
                ELSE
                LET v == Ok(TRUE)
                IN  IF v.exc # "" THEN Out(v)
                    ELSE [exc |-> "", val |-> TRUE, readPub |-> pubkey_pem.readPub]

\* verify_signature: [exc, val, readPub]; ValueError and TypeError become False
verify_signature(lic, emb, pubf) ==
    LET pubkey_pem == get_public_key(emb, pubf)
        Caught(e) == e \in {"ValueError", "TypeError"}
        Out(r) == IF Caught(r.exc)
                  THEN [exc |-> "", val |-> FALSE, readPub |-> pubkey_pem.readPub]
                  ELSE [exc |-> r.exc, readPub |-> pubkey_pem.readPub]
    IN  IF pubkey_pem.exc # "" THEN Out(pubkey_pem)
        ELSE
        LET public_key == import_key(pubkey_pem.val)
        IN  IF public_key.exc # "" THEN Out(public_key)
            ELSE
            LET payload == client_get_payload(lic)
                json_str == JsonDumpsSorted(payload)
                h == SHA256(json_str)
                signature == b64decode(lic.signature)
            IN  IF signature.exc # "" THEN Out(signature)
                ELSE
                LET v == pkcs1_15_verify(public_key.val, h, signature.val)
                IN  IF v.exc # "" THEN Out(v)
                    ELSE [exc |-> "", val |-> TRUE, readPub |-> pubkey_pem.readPub]

\* check_mac_binding that compares the allowed MACs as written
check_mac_binding_CaseSensitive(lic, node) ==
    LET allowed_macs == [i \in 1..Len(lic.bindings.mac.v) |-> lic.bindings.mac.v[i].v]
    IN  IF allowed_macs = <<>> THEN TRUE
        ELSE InSeq(get_primary_mac(node), allowed_macs)

\* check_mac_binding, with the node uuid.getnode() reports
check_mac_binding(lic, node) ==
    LET allowed_macs == LowerAll(lic.bindings.mac.v)
    IN  IF allowed_macs = <<>> THEN TRUE
        ELSE InSeq(get_primary_mac(node), allowed_macs)

\* check_hostname_binding, with the name socket.gethostname() reports
check_hostname_binding(lic, name) ==
    LET allowed_hosts == LowerAll(lic.bindings.host.v)
    IN  IF allowed_hosts = <<>> THEN TRUE
        ELSE InSeq(get_hostname(name), allowed_hosts)

\* The outcome of a validate_license call: the triple it returns (or the
\* exception that escapes it) and the inputs it actually read on the way:
\* the clock at is_expired (now1) and at days_until_expiry (now2), the node,
\* the host name, and whether the public-key file was opened.
NoReads == [now1 |-> -1, now2 |-> -1, node |-> <<>>, hostname |-> "", readPub |-> FALSE]

Returned(status, msg, lic, reads) ==
    [op |-> "validate_license", exc |-> "", status |-> status, msg |-> msg,
     lic |-> lic, now1 |-> reads.now1, now2 |-> reads.now2, node |-> reads.node,
     hostname |-> reads.hostname, readPub |-> reads.readPub]

Escaped(exc, reads) ==
    [op |-> "validate_license", exc |-> exc, status |-> "", msg |-> <<>>,
     lic |-> PyNone, now1 |-> reads.now1, now2 |-> reads.now2, node |-> reads.node,
     hostname |-> reads.hostname, readPub |-> reads.readPub]

\* The binding checks with a MAC mismatch message that names the hostname
validate_bindings_WrongValue(license_obj, require_bindings, now2, node, name, reads) ==
    LET mac_checked == require_bindings /\ has_bindings(license_obj.bindings)
                       /\ Truthy(license_obj.bindings.mac)
        mac_failed == mac_checked /\ ~check_mac_binding(license_obj, node)
        readsM == IF mac_checked THEN [reads EXCEPT !.node = node] ELSE reads
        host_checked == require_bindings /\ has_bindings(license_obj.bindings)
                        /\ ~mac_failed /\ Truthy(license_obj.bindings.host)
        host_failed == host_checked /\ ~check_hostname_binding(license_obj, name)
        readsH == IF host_checked THEN [readsM EXCEPT !.hostname = name] ELSE readsM
    IN  IF mac_failed
        THEN Returned("MAC_MISMATCH",
                      <<"MAC mismatch. Current: {}, Allowed: {}",
                        get_hostname(name), license_obj.bindings.mac.v>>,
                      license_obj, readsM)
        ELSE IF host_failed
        THEN Returned("HOSTNAME_MISMATCH",
                      <<"Hostname mismatch. Current: {}, Allowed: {}",
                        get_hostname(name), license_obj.bindings.host.v>>,
                      license_obj, readsH)
        ELSE LET days_left == days_until_expiry(license_obj, now2)
                 readsD == [readsH EXCEPT !.now2 = now2]
             IN  IF days_left.exc # "" THEN Escaped(days_left.exc, readsD)
                 ELSE Returned("VALID",
                               <<"License valid for {}. Expires in {} days.",
                                 license_obj.customer.v, days_left.val>>,
                               license_obj, readsD)

\* validate_license lines 143-166: the binding checks and the VALID return
validate_bindings(license_obj, require_bindings, now2, node, name, reads) ==
    LET mac_checked == require_bindings /\ has_bindings(license_obj.bindings)
                       /\ Truthy(license_obj.bindings.mac)
        mac_failed == mac_checked /\ ~check_mac_binding(license_obj, node)
        readsM == IF mac_checked THEN [reads EXCEPT !.node = node] ELSE reads
        host_checked == require_bindings /\ has_bindings(license_obj.bindings)
                        /\ ~mac_failed /\ Truthy(license_obj.bindings.host)
        host_failed == host_checked /\ ~check_hostname_binding(license_obj, name)
        readsH == IF host_checked THEN [readsM EXCEPT !.hostname = name] ELSE readsM
    IN  IF mac_failed
        THEN Returned("MAC_MISMATCH",
                      <<"MAC mismatch. Current: {}, Allowed: {}",
                        get_primary_mac(node), license_obj.bindings.mac.v>>,
                      license_obj, readsM)
        ELSE IF host_failed
        THEN Returned("HOSTNAME_MISMATCH",
                      <<"Hostname mismatch. Current: {}, Allowed: {}",
                        get_hostname(name), license_obj.bindings.host.v>>,
                      license_obj, readsH)
        ELSE LET days_left == days_until_expiry(license_obj, now2)
                 readsD == [readsH EXCEPT !.now2 = now2]
             IN  IF days_left.exc # "" THEN Escaped(days_left.exc, readsD)
                 ELSE Returned("VALID",
                               <<"License valid for {}. Expires in {} days.",
                                 license_obj.customer.v, days_left.val>>,
                               license_obj, readsD)

\* validate_license lines 121-133: load the license and verify its
\* signature.  Either the call is over, or license_obj goes on to the
\* expiry check.
Pending(license_obj, reads) == [op |-> "pending", license_obj |-> license_obj, reads |-> reads]

validate_signature(f, emb, pubf) ==
    LET loaded == load_license(f)
    IN  IF loaded.exc = "FileNotFoundError"
        THEN Returned("FILE_NOT_FOUND", <<"License file not found: license.lic">>,
                      PyNone, NoReads)
        ELSE IF loaded.exc = "JSONDecodeError"
        THEN Returned("INVALID_FORMAT", <<"Invalid license file format">>,
                      PyNone, NoReads)
        ELSE IF loaded.exc # ""
        THEN Returned("UNKNOWN_ERROR", <<"Error loading license: {}", loaded.exc>>,
                      PyNone, NoReads)
        ELSE
        LET license_obj == loaded.val
            sig == verify_signature(license_obj, emb, pubf)
            readsS == [NoReads EXCEPT !.readPub = sig.readPub]
        IN  IF sig.exc # "" THEN Escaped(sig.exc, readsS)
            ELSE IF ~sig.val
            THEN Returned("INVALID_SIGNATURE", <<"Invalid license signature">>,
                          PyNone, readsS)
            ELSE Pending(license_obj, readsS)

\* The expiry check returning no license object with EXPIRED
validate_expiry_NoLicense(license_obj, now1, reads) ==
    LET expired == is_expired(license_obj, now1)
        readsE == [reads EXCEPT !.now1 = now1]
    IN  IF expired.exc # "" THEN Escaped(expired.exc, readsE)
        ELSE IF expired.val
        THEN Returned("EXPIRED", <<"License expired on {}", license_obj.expiry.v>>,
                      PyNone, readsE)
        ELSE Pending(license_obj, readsE)

\* validate_license lines 135-141: the expiry check, the clock reading now1
validate_expiry(license_obj, now1, reads) ==
    LET expired == is_expired(license_obj, now1)
        readsE == [reads EXCEPT !.now1 = now1]
    IN  IF expired.exc # "" THEN Escaped(expired.exc, readsE)
        ELSE IF expired.val
        THEN Returned("EXPIRED", <<"License expired on {}", license_obj.expiry.v>>,
                      license_obj, readsE)
        ELSE Pending(license_obj, readsE)

\* validate_license on license file f, key sources emb and pubf, the clock
\* reading now1 then now2, and the machine reporting node and name
validate_license(f, emb, pubf, require_bindings, now1, now2, node, name) ==
    LET s == validate_signature(f, emb, pubf)
    IN  IF s.op # "pending" THEN s
        ELSE LET e == validate_expiry(s.license_obj, now1, s.reads)
             IN  IF e.op # "pending" THEN e
                 ELSE validate_bindings(e.license_obj, require_bindings,
                                        now2, node, name, e.reads)

----------------------------------------------------------------------------
(* server-application/services/license_service.py *)

\* keys_exist that looks for the public key only
keys_exist_PubOnly(pub, priv) == Exists(pub)

keys_exist(pub, priv) == Exists(pub) /\ Exists(priv)

\* The message of the FileNotFoundError create_license raises itself
KeysNotFound == "RSA keys not found. Run 'genkeys' first."

\* create_license: [exc, lic, file]; file is what is written to the license
\* path (json.dump of to_license_file), present only when nothing was raised
create_license(pub, priv, customer, expiry, bind_mac, bind_hostname) ==
    IF ~keys_exist(pub, priv)
    THEN [exc |-> "FileNotFoundError", msg |-> KeysNotFound]
    ELSE
    LET bindings == [mac |-> PyList(bind_mac), host |-> PyList(bind_hostname)]
        license_obj == [customer |-> PyStr(customer), expiry |-> PyStr(expiry),
                        bindings |-> bindings, signature |-> PyNone]
        private_key == load_private_key(priv)
    IN  IF private_key.exc # "" THEN private_key
        ELSE
        LET payload == server_get_payload(license_obj)
            signature == sign_data(payload, private_key.val)
        IN  IF signature.exc # "" THEN signature
            ELSE LET signed == [license_obj EXCEPT !.signature = signature.val]
                 IN  [exc |-> "", lic |-> signed,
                      file |-> JsonFile(to_license_file(signed))]

\* generate_keys that never looks at the key directory
generate_keys_NoCheck(pub, priv, force, k) ==
    [exc |-> "", priv |-> export_key(k, TRUE), pub |-> export_key(k, FALSE)]

\* generate_keys: [exc, priv, pub]; k is the key pair RSA.generate returns
generate_keys(pub, priv, force, k) ==
    IF keys_exist(pub, priv) /\ ~force THEN Raise("FileExistsError")
    ELSE [exc |-> "", priv |-> export_key(k, TRUE), pub |-> export_key(k, FALSE)]

\* server-application/models/license_model.py: LicenseBindings.from_dict
server_from_dict(data) ==
    LET mac == DictGet(data, "mac", PyList(<<>>))
        host == DictGet(data, "host", PyList(<<>>))
    IN  IF mac.exc # "" THEN mac
        ELSE IF host.exc # "" THEN host
        ELSE Ok([mac |-> mac.val, host |-> host.val])

\* server-application/models/license_model.py: License.from_license_file
server_from_license_file(data) ==
    LET payload == DictIndex(data, "payload")
    IN  IF payload.exc # "" THEN payload
        ELSE
        LET customer == DictIndex(payload.val, "customer")
        IN  IF customer.exc # "" THEN customer
            ELSE
            LET expiry == DictIndex(payload.val, "expiry")
            IN  IF expiry.exc # "" THEN expiry
                ELSE
                LET binds == DictGet(payload.val, "binds", PyDict(<<>>))
                IN  IF binds.exc # "" THEN binds
                    ELSE
                    LET bindings == server_from_dict(binds.val)
                    IN  IF bindings.exc # "" THEN bindings
                        ELSE
                        LET signature == DictGet(data, "signature", PyNone)
                        IN  IF signature.exc # "" THEN signature
                            ELSE Ok([customer |-> customer.val,
                                     expiry |-> expiry.val,
                                     bindings |-> bindings.val,
                                     signature |-> signature.val])

\* server-application/models/license_model.py: License.is_expired
server_is_expired(lic, now) ==
    LET expiry_date == FromIsoFormat(lic.expiry.v)
    IN  IF expiry_date.exc # "" THEN expiry_date ELSE Ok(now > expiry_date.val)

\* CryptoUtils.load_public_key
load_public_key(f) ==
    IF ~Exists(f) THEN Raise("FileNotFoundError") ELSE import_key(f)

\* CryptoUtils.verify_signature: ValueError and TypeError become False
CryptoUtils_verify_signature(data, signature_b64, public_key) ==
    LET json_str == JsonDumpsSorted(data)
        h == SHA256(json_str)
        signature == b64decode(signature_b64)
        Caught(e) == e \in {"ValueError", "TypeError"}
    IN  IF signature.exc # ""
        THEN IF Caught(signature.exc) THEN Ok(FALSE) ELSE signature
        ELSE LET v == pkcs1_15_verify(public_key, h, signature.val)
             IN  IF v.exc # ""
                 THEN IF Caught(v.exc) THEN Ok(FALSE) ELSE v
                 ELSE Ok(TRUE)

\* The outcome of a verify_license call: the pair it returns (or the
\* exception that escapes it) and the clock reading it took (-1: none)
Verified(is_valid, msg, now) ==
    [op |-> "verify_license", exc |-> "", is_valid |-> is_valid, msg |-> msg, now |-> now]

\* except Exception as e: return False, f"Verification error: {str(e)}"
VerificationError(e, now) == Verified(FALSE, <<"Verification error: {}", e>>, now)

\* verify_license lines 135-152: load the record and the public key and
\* verify the signature.  Either the call is over, or license_obj goes on to
\* the expiry check.
verify_license_signature(licf, pubf) ==
    IF ~Exists(licf) THEN VerificationError("FileNotFoundError", -1)
    ELSE
    LET data == json_load(licf)
    IN  IF data.exc # "" THEN VerificationError(data.exc, -1)
        ELSE
        LET license_obj == server_from_license_file(data.val)
        IN  IF license_obj.exc # "" THEN VerificationError(license_obj.exc, -1)
            ELSE
            LET public_key == load_public_key(pubf)
            IN  IF public_key.exc # "" THEN VerificationError(public_key.exc, -1)
                ELSE
                LET is_valid == CryptoUtils_verify_signature(
                                    server_get_payload(license_obj.val),
                                    license_obj.val.signature, public_key.val)
                IN  IF is_valid.exc # "" THEN VerificationError(is_valid.exc, -1)
                    ELSE IF ~is_valid.val
                    THEN Verified(FALSE, <<"Invalid signature">>, -1)
                    ELSE [op |-> "pending", license_obj |-> license_obj.val]

\* The expiry step failing every license that carries a binding
verify_license_expiry_Bound(license_obj, now) ==
    IF license_obj.bindings.mac.v # <<>> \/ license_obj.bindings.host.v # <<>>
    THEN Verified(FALSE, <<"Binding mismatch">>, now)
    ELSE Verified(TRUE, <<"License valid for {}", license_obj.customer.v>>, now)

\* verify_license lines 154-160: the expiry check, the clock reading now
verify_license_expiry(license_obj, now) ==
    LET expired == server_is_expired(license_obj, now)
    IN  IF expired.exc # "" THEN VerificationError(expired.exc, now)
        ELSE IF expired.val
        THEN Verified(FALSE, <<"License expired on {}", license_obj.expiry.v>>, now)
        ELSE Verified(TRUE, <<"License valid for {}", license_obj.customer.v>>, now)

\* verify_license on the file at license_path, the issuer's pub.pem and the
\* clock reading now
verify_license(licf, pubf, now) ==
    LET s == verify_license_signature(licf, pubf)
    IN  IF s.op # "pending" THEN s ELSE verify_license_expiry(s.license_obj, now)

----------------------------------------------------------------------------
(* Inputs *)

\* What the issuer is asked to put in a license
Customers == {"Acme"}
ExpiryStrs == {DateStr(d) : d \in Days} \cup {"next year"}
MacStrs == {"AA:BB:CC:DD:EE:FF"}
HostStrs == {"Build-01"}
StrLists(pool) == UNION {[1..n -> {PyStr(x) : x \in pool}] : n \in 0..MaxBinds}

\* What an edited license file can say
EditedCustomers == Customers \cup {"Initech"}
EditedMacStrs == MacStrs \cup {"11:22:33:44:55:66"}
EditedHostStrs == HostStrs \cup {"db"}

Nodes == {<<170, 187, 204, 221, 238, 255>>, <<17, 34, 51, 68, 85, 102>>}
HostNames == {"BUILD-01", "db"}

\* What the client's pub.pem can hold, and what can be embedded
PubKeyFiles == {Absent, Garbage} \cup {Pem(k, FALSE) : k \in 1..keyCounter}
EmbeddedKeys == {PyNone, PyStr(Empty)}
                    \cup {PyStr(Pem(k, FALSE)) : k \in 1..keyCounter}

\* License files that are no well-formed record
DamagedFiles ==
    {Absent, NotUtf8, NotJson,
     JsonFile(PyList(<<>>)),
     JsonFile(PyDict(<<>>)),
     JsonFile(PyDict(<< <<"payload", PyDict(<< <<"customer", PyStr("Acme")>> >>)>> >>)),
     JsonFile(PyDict(<< <<"payload", PyDict(<< <<"expiry", PyStr(DateStr(1))>> >>)>> >>))}

\* Two lists one added, removed or altered entry apart
OneEntryApart(a, b) ==
    \/ /\ Len(a) = Len(b)
       /\ \E i \in 1..Len(a) : a[i] # b[i] /\ \A j \in 1..Len(a) : j # i => a[j] = b[j]
    \/ /\ Len(b) = Len(a) + 1
       /\ \E i \in 1..Len(b) :
             a = [j \in 1..Len(a) |-> IF j < i THEN b[j] ELSE b[j + 1]]
    \/ /\ Len(a) = Len(b) + 1
       /\ \E i \in 1..Len(a) :
             b = [j \in 1..Len(b) |-> IF j < i THEN a[j] ELSE a[j + 1]]

\* The license file holds a record whose signature is an RSA signature over
\* exactly the payload the record carries
Pristine(f) ==
    LET loaded == load_license(f)
    IN  /\ loaded.exc = ""
        /\ b64decode(loaded.val.signature).exc = ""
        /\ b64decode(loaded.val.signature).val.kind = "rsa"
        /\ b64decode(loaded.val.signature).val.digest
              = SHA256(JsonDumpsSorted(client_get_payload(loaded.val)))

----------------------------------------------------------------------------
(* client-application/controllers/app_controller.py.  A run of the client   *)
(* application is recorded with the position it has reached (pc), what it   *)
(* has imported and executed so far, and the exit code of its process (-1   *)
(* while it runs).                                                          *)

\* LicenseStatus.value
StatusValue(status) ==
    CASE status = "VALID" -> 0
      [] status = "FILE_NOT_FOUND" -> 2
      [] status = "INVALID_SIGNATURE" -> 3
      [] status = "EXPIRED" -> 4
      [] status = "MAC_MISMATCH" -> 5
      [] status = "HOSTNAME_MISMATCH" -> 6
      [] status = "INVALID_FORMAT" -> 7
      [] status = "UNKNOWN_ERROR" -> 99

\* core.protected_module in the installation: the embedded key comes from
\* it, so it is there whenever a key is embedded
ModuleStates(emb) == IF emb = PyNone THEN {"absent", "present"} ELSE {"present"}

\* What validate_license() can return or raise, over the clock readings and
\* the machines it may run on
ValidateOutcomes(f, emb, pubf) ==
    LET s == validate_signature(f, emb, pubf)
    IN  IF s.op # "pending" THEN {s}
        ELSE UNION {
            LET e == validate_expiry(s.license_obj, now1, s.reads)
            IN  IF e.op # "pending" THEN {e}
                ELSE {validate_bindings(e.license_obj, TRUE, now1 + drift, node, name, e.reads) :
                        drift \in 0..MaxDrift, node \in Nodes, name \in HostNames}
            : now1 \in Clock}

Run(pc, module, exc, status, loaded, executed, exit_code) ==
    [op |-> "run", pc |-> pc,
     imported |-> module = "present",   \* lines 62-64 imported core.protected_module
     exc |-> exc, status |-> status,    \* what validate_license raised or returned
     loaded |-> loaded,                 \* _load_protected_module got the module
     executed |-> executed,             \* "none", "protected" or "fallback"
     exit_code |-> exit_code]

\* _validate_license lines 82-86 with a status other than VALID, as a process
\* exit code returning 1 from run() (sys.exit left out)
validate_license_failed_ReturnsOne(status) == 1

\* _validate_license lines 82-86 with a status other than VALID: the process
\* exit code sys.exit(status.value) gives
validate_license_failed(status) == StatusValue(status)

\* _validate_license: the run after validate_license() gave v.  An exception
\* nothing catches ends the process with exit code 1.
validated_run(module, v) ==
    IF v.exc # ""
    THEN Run("exited", module, v.exc, "", FALSE, "none", 1)
    ELSE IF v.status = "VALID"
    THEN Run("validated", module, "", v.status, FALSE, "none", -1)
    ELSE Run("exited", module, "", v.status, FALSE, "none",
             validate_license_failed(v.status))

\* ProtectedBusinessLogic(...).execute_protected_logic() and the calls around
\* it: the same business function as BusinessService, which returns
execute_protected_logic == Ok("Hello World")

\* BusinessService.initialize / execute / shutdown
business_service_execute == Ok("Hello World")

\* _execute_business_logic: the exit code run() returns
execute_business_logic(loaded) ==
    LET result == IF loaded THEN execute_protected_logic ELSE business_service_execute
    IN  IF result.exc # "" THEN 1 ELSE 0

----------------------------------------------------------------------------
(* The state machine.  Every operation is one run of a command-line        *)
(* program: it starts from the idle shell, leaves its outcome in last, and  *)
(* exits.                                                                   *)

NoCall == [op |-> "none"]
Idle == last = NoCall

\* Issuer processes that may run generate_keys at the same time
Procs == {"A", "B"}

\* A generate_keys invocation: where it stands, the force it was given, and
\* the key pair RSA.generate gave it (0: none yet)
GenCall(pc, force, key) == [pc |-> pc, force |-> force, key |-> key]
NotCalling == GenCall("idle", FALSE, 0)

Init ==
    /\ privFile = Absent
    /\ pubFile = Absent
    /\ keyCounter = 0
    /\ licFile = Absent
    /\ clientPub = Absent
    /\ embedded = PyNone
    /\ last = NoCall
    /\ genCalls = [p \in Procs |-> NotCalling]

\* genkeys [--force]
GenerateKeys ==
    /\ Idle
    /\ \E force \in BOOLEAN :
        LET r == generate_keys(pubFile, privFile, force, keyCounter + 1)
        IN  IF r.exc # ""
            THEN /\ last' = [op |-> "generate_keys", exc |-> r.exc, force |-> force,
                              existed |-> keys_exist(pubFile, privFile),
                              hadPriv |-> Exists(privFile), hadPub |-> Exists(pubFile)]
                 /\ UNCHANGED <<genCalls, privFile, pubFile, keyCounter, licFile, clientPub, embedded>>
            ELSE /\ keyCounter < NumKeys
                 /\ privFile' = r.priv
                 /\ pubFile' = r.pub
                 /\ keyCounter' = keyCounter + 1
                 /\ last' = [op |-> "generate_keys", exc |-> "", force |-> force,
                              existed |-> keys_exist(pubFile, privFile),
                              hadPriv |-> Exists(privFile), hadPub |-> Exists(pubFile)]
                 /\ UNCHANGED <<genCalls, licFile, clientPub, embedded>>

\* create --customer --expiry [--bind-mac ...] [--bind-hostname ...]
CreateLicenseWith(customers, macStrs, hostStrs) ==
    /\ Idle
    /\ \E customer \in customers, expiry \in ExpiryStrs,
          bind_mac \in StrLists(macStrs), bind_hostname \in StrLists(hostStrs) :
        \E r \in {create_license(pubFile, privFile, customer, expiry, bind_mac, bind_hostname)} :
            /\ licFile' = IF r.exc = "" THEN r.file ELSE licFile
            /\ last' = [op |-> "create_license", exc |-> r.exc,
                        msg |-> IF "msg" \in DOMAIN r THEN r.msg ELSE "",
                        lic |-> IF r.exc = "" THEN r.lic ELSE PyNone]
    /\ UNCHANGED <<genCalls, privFile, pubFile, keyCounter, clientPub, embedded>>

\* A license is issued to a fresh path, to be shipped to the client
CreateLicense ==
    /\ ~Exists(licFile)
    /\ CreateLicenseWith(Customers, MacStrs, HostStrs)

\* A license is issued, overwriting the one at the path if there is one
ReissueLicense ==
    CreateLicenseWith(EditedCustomers, EditedMacStrs, EditedHostStrs)

\* The license file is edited: one payload field of a correctly signed record
\* is changed (the customer, the expiry, or one mac or host entry added,
\* removed or altered) and the signature kept
Edited(lic, customer, expiry, mac, host) ==
    JsonFile(to_license_file(
        [customer |-> PyStr(customer), expiry |-> PyStr(expiry),
         bindings |-> [mac |-> PyList(mac), host |-> PyList(host)],
         signature |-> lic.signature]))

TamperLicense ==
    /\ Idle
    /\ Pristine(licFile)
    /\ LET lic == load_license(licFile).val
           c == lic.customer.v
           e == lic.expiry.v
           m == lic.bindings.mac.v
           h == lic.bindings.host.v
       IN  \/ \E customer \in EditedCustomers \ {c} :
                 licFile' = Edited(lic, customer, e, m, h)
           \/ \E expiry \in ExpiryStrs \ {e} :
                 licFile' = Edited(lic, c, expiry, m, h)
           \/ \E mac \in StrLists(EditedMacStrs) :
                 OneEntryApart(mac, m) /\ licFile' = Edited(lic, c, e, mac, h)
           \/ \E host \in StrLists(EditedHostStrs) :
                 OneEntryApart(host, h) /\ licFile' = Edited(lic, c, e, m, host)
    /\ last' = NoCall
    /\ UNCHANGED <<genCalls, privFile, pubFile, keyCounter, clientPub, embedded>>

\* The signature of a record is replaced by null, by text that is not
\* base64, or by base64 of too few bytes
ReplaceSignature ==
    /\ Idle
    /\ Pristine(licFile)
    /\ LET lic == load_license(licFile).val
       IN  \E signature \in {NotBase64, ShortSignature} :
              \/ licFile' = JsonFile(to_license_file([lic EXCEPT !.signature = signature]))
              \/ licFile' = JsonFile(to_license_file([lic EXCEPT !.signature = PyNone]))
    /\ last' = NoCall
    /\ UNCHANGED <<genCalls, privFile, pubFile, keyCounter, clientPub, embedded>>

\* Something that is no license record is put where the license file is
\* expected
PlaceDamagedFile ==
    /\ Idle
    /\ ~Exists(licFile)
    /\ \E f \in DamagedFiles \ {Absent} : licFile' = f
    /\ last' = NoCall
    /\ UNCHANGED <<genCalls, privFile, pubFile, keyCounter, clientPub, embedded>>

\* The client is deployed with a pub.pem
InstallPubKey ==
    /\ Idle
    /\ ~Exists(clientPub)
    /\ \E f \in PubKeyFiles \ {Absent} : clientPub' = f
    /\ last' = NoCall
    /\ UNCHANGED <<genCalls, privFile, pubFile, keyCounter, licFile, embedded>>

\* The client is built with an embedded key
EmbedPubKey ==
    /\ Idle
    /\ embedded = PyNone
    /\ \E e \in EmbeddedKeys \ {PyNone} : embedded' = e
    /\ last' = NoCall
    /\ UNCHANGED <<genCalls, privFile, pubFile, keyCounter, licFile, clientPub>>

\* AppController._validate_license: LicenseService(...).validate_license().
\* The clock and the machine are consulted where the code consults them.
ValidateLicense ==
    /\ Idle
    /\ LET s == validate_signature(licFile, embedded, clientPub)
       IN  IF s.op # "pending" THEN last' = s
           ELSE \E now1 \in Clock :
                   LET e == validate_expiry(s.license_obj, now1, s.reads)
                   IN  IF e.op # "pending" THEN last' = e
                       ELSE \E drift \in 0..MaxDrift, node \in Nodes, name \in HostNames :
                               last' = validate_bindings(e.license_obj, TRUE, now1 + drift,
                                                         node, name, e.reads)
    /\ UNCHANGED <<genCalls, privFile, pubFile, keyCounter, licFile, clientPub, embedded>>

\* AppController.run up to the end of _validate_license
StartApp ==
    /\ Idle
    /\ \E module \in ModuleStates(embedded),
          v \in ValidateOutcomes(licFile, embedded, clientPub) :
            last' = validated_run(module, v)
    /\ UNCHANGED <<genCalls, privFile, pubFile, keyCounter, licFile, clientPub, embedded>>

\* AppController._load_protected_module
LoadProtectedModule ==
    /\ last.op = "run"
    /\ last.pc = "validated"
    /\ last' = [last EXCEPT !.pc = "loaded", !.loaded = last.imported]
    /\ UNCHANGED <<genCalls, privFile, pubFile, keyCounter, licFile, clientPub, embedded>>

\* AppController._execute_business_logic, and run() returning its exit code
ExecuteBusinessLogic ==
    /\ last.op = "run"
    /\ last.pc = "loaded"
    /\ last' = [last EXCEPT !.pc = "exited",
                            !.executed = IF last.loaded THEN "protected" ELSE "fallback",
                            !.exit_code = execute_business_logic(last.loaded)]
    /\ UNCHANGED <<genCalls, privFile, pubFile, keyCounter, licFile, clientPub, embedded>>

\* The program's process exits
Exit ==
    /\ ~Idle
    /\ last' = NoCall
    /\ UNCHANGED <<genCalls, privFile, pubFile, keyCounter, licFile, clientPub, embedded>>

Next ==
    \/ GenerateKeys
    \/ CreateLicense
    \/ TamperLicense
    \/ ReplaceSignature
    \/ PlaceDamagedFile
    \/ InstallPubKey
    \/ EmbedPubKey
    \/ ValidateLicense
    \/ Exit

Spec == Init /\ [][Next]_vars

\* The issuer alone
IssuerNext ==
    \/ GenerateKeys
    \/ ReissueLicense
    \/ Exit

IssuerSpec == Init /\ [][IssuerNext]_vars

\* create with the arguments of a shipped license, to whatever is at the path
IssueLicense ==
    CreateLicenseWith(Customers, MacStrs, HostStrs)

\* One of the issuer's key files is lost (removed, or never fully written)
RemoveKeyFile ==
    /\ Idle
    /\ \/ Exists(privFile) /\ privFile' = Absent /\ pubFile' = pubFile
       \/ Exists(pubFile) /\ pubFile' = Absent /\ privFile' = privFile
    /\ last' = NoCall
    /\ UNCHANGED <<genCalls, keyCounter, licFile, clientPub, embedded>>

\* verify --lic: LicenseService.verify_license.  The clock is consulted
\* where the code consults it.
VerifyLicense ==
    /\ Idle
    /\ LET s == verify_license_signature(licFile, pubFile)
       IN  IF s.op # "pending" THEN last' = s
           ELSE \E now \in Clock : last' = verify_license_expiry(s.license_obj, now)
    /\ UNCHANGED <<genCalls, privFile, pubFile, keyCounter, licFile, clientPub, embedded>>

\* generate_keys lines 54-57 in process p: the existence check
GenKeysCheck(p) ==
    /\ genCalls[p].pc = "idle"
    /\ \E force \in BOOLEAN :
          genCalls' = [genCalls EXCEPT ![p] =
              IF keys_exist(pubFile, privFile) /\ ~force
              THEN GenCall("failed", force, 0)        \* FileExistsError
              ELSE GenCall("checked", force, 0)]
    /\ UNCHANGED <<privFile, pubFile, keyCounter, licFile, clientPub, embedded, last>>

\* generate_rsa_keypair in process p writing both key files in one step
GenKeysWriteBoth(p) ==
    /\ genCalls[p].pc = "checked"
    /\ keyCounter < NumKeys
    /\ keyCounter' = keyCounter + 1
    /\ privFile' = export_key(keyCounter + 1, TRUE)
    /\ pubFile' = export_key(keyCounter + 1, FALSE)
    /\ genCalls' = [genCalls EXCEPT ![p] = GenCall("done", genCalls[p].force, keyCounter + 1)]
    /\ UNCHANGED <<licFile, clientPub, embedded, last>>

\* generate_rsa_keypair lines 41-45 in process p: RSA.generate, then the
\* private key is written
GenKeysWritePriv(p) ==
    /\ genCalls[p].pc = "checked"
    /\ keyCounter < NumKeys
    /\ keyCounter' = keyCounter + 1
    /\ privFile' = export_key(keyCounter + 1, TRUE)
    /\ genCalls' = [genCalls EXCEPT ![p] =
                      GenCall("wrote_priv", genCalls[p].force, keyCounter + 1)]
    /\ UNCHANGED <<pubFile, licFile, clientPub, embedded, last>>

\* generate_rsa_keypair lines 47-51 in process p: the public key is written
GenKeysWritePub(p) ==
    /\ genCalls[p].pc = "wrote_priv"
    /\ pubFile' = export_key(genCalls[p].key, FALSE)
    /\ genCalls' = [genCalls EXCEPT ![p] = GenCall("done", genCalls[p].force, genCalls[p].key)]
    /\ UNCHANGED <<privFile, keyCounter, licFile, clientPub, embedded, last>>

\* The invocation of process p is over (returned, or raised)
GenKeysReturn(p) ==
    /\ genCalls[p].pc \in {"done", "failed"}
    /\ genCalls' = [genCalls EXCEPT ![p] = NotCalling]
    /\ UNCHANGED <<privFile, pubFile, keyCounter, licFile, clientPub, embedded, last>>

\* Issuer processes running generate_keys side by side
RaceNext ==
    \/ \E p \in Procs : GenKeysCheck(p)
    \/ \E p \in Procs : GenKeysWritePriv(p)
    \/ \E p \in Procs : GenKeysWritePub(p)
    \/ \E p \in Procs : GenKeysReturn(p)

RaceSpec == Init /\ [][RaceNext]_vars

\* The client application run against what the issuer shipped
AppNext ==
    \/ GenerateKeys
    \/ CreateLicense
    \/ PlaceDamagedFile
    \/ InstallPubKey
    \/ EmbedPubKey
    \/ StartApp
    \/ LoadProtectedModule
    \/ ExecuteBusinessLogic
    \/ Exit

AppSpec == Init /\ [][AppNext]_vars

\* The issuing authority at work on its key directory and license file
AuthorityNext ==
    \/ GenerateKeys
    \/ IssueLicense
    \/ RemoveKeyFile
    \/ PlaceDamagedFile
    \/ ReplaceSignature
    \/ TamperLicense
    \/ VerifyLicense
    \/ Exit

AuthoritySpec == Init /\ [][AuthorityNext]_vars

----------------------------------------------------------------------------
(* Properties.  After a validate_license run the files are as the run found *)
(* them, and last holds the outcome with the clock and machine readings     *)
(* the run took.                                                            *)

Validated == last.op = "validate_license"

LoadedOk == load_license(licFile).exc = ""
TheLicense == load_license(licFile).val

\* Readings a run may have been given where it took none
Now1s == IF last.now1 = -1 THEN Clock ELSE {last.now1}
NodesRead == IF last.node = <<>> THEN Nodes ELSE {last.node}
NamesRead == IF last.hostname = "" THEN HostNames ELSE {last.hostname}

\* The verification key resolves and the signature verifies under it
SignatureVerifies ==
    /\ LoadedOk
    /\ verify_signature(TheLicense, embedded, clientPub).exc = ""
    /\ verify_signature(TheLicense, embedded, clientPub).val

\* 00:00 UTC of day d
Midnight(d) == d * TicksPerDay

IsDate(s) == \E d \in Days : s = DateStr(d)
DayOf(s) == CHOOSE d \in Days : s = DateStr(d)

\* The checks of the validation pipeline, as the specification words them
LoadFails == ~LoadedOk
SignatureFails == ~SignatureVerifies
ExpiryFails(now) ==
    ~(IsDate(TheLicense.expiry.v) /\ now <= Midnight(DayOf(TheLicense.expiry.v)))
MacSatisfied(node) ==
    \/ TheLicense.bindings.mac.v = <<>>
    \/ \E i \in 1..Len(TheLicense.bindings.mac.v) :
          Lower(TheLicense.bindings.mac.v[i].v) = Lower(get_primary_mac(node))
HostSatisfied(name) ==
    \/ TheLicense.bindings.host.v = <<>>
    \/ \E i \in 1..Len(TheLicense.bindings.host.v) :
          Lower(TheLicense.bindings.host.v[i].v) = Lower(name)

LoadStatuses == {"FILE_NOT_FOUND", "INVALID_FORMAT", "UNKNOWN_ERROR"}

\* The statuses the first failing check allows, in the order
\* load/parse, signature, expiry, MAC binding, hostname binding
FirstFailing(now, node, name) ==
    IF LoadFails THEN LoadStatuses
    ELSE IF SignatureFails THEN {"INVALID_SIGNATURE"}
    ELSE IF ExpiryFails(now) THEN {"EXPIRED"}
    ELSE IF ~MacSatisfied(node) THEN {"MAC_MISMATCH"}
    ELSE IF ~HostSatisfied(name) THEN {"HOSTNAME_MISMATCH"}
    ELSE {"VALID"}

\* C1: for every license file, key source, clock value and machine identity,
\* validate_license returns the status of the first failing check in the
\* order load/parse, signature, expiry, MAC binding, hostname binding, and
\* VALID if none fails.
C1_FirstFailingCheck ==
    Validated =>
        \A now \in Now1s, node \in NodesRead, name \in NamesRead :
            /\ last.exc = ""
            /\ last.status \in FirstFailing(now, node, name)

\* A well-formed record validated with no embedded key and no public-key
\* file: the signature check is the first to fail and no status comes back
C1_Witness ==
    /\ Validated
    /\ LoadedOk
    /\ SignatureFails
    /\ last.exc = "FileNotFoundError"

\* The ordering alone: whenever validate_license does return a status, it is
\* that of the first failing check
OrderingOfReturnedStatus ==
    (Validated /\ last.exc = "") =>
        \A now \in Now1s, node \in NodesRead, name \in NamesRead :
            last.status \in FirstFailing(now, node, name)

\* C2: validate_license never lets a fault escape to its caller: for every
\* license file, key source and record content it returns a status triple.
C2_NeverRaises ==
    Validated => last.exc = ""

\* A correctly signed license whose expiry is no date: the fault of
\* fromisoformat escapes
C2_Witness ==
    /\ Validated
    /\ SignatureVerifies
    /\ ~IsDate(TheLicense.expiry.v)
    /\ last.exc = "ValueError"

----------------------------------------------------------------------------
(* Signatures *)

\* A verification key is at hand: embedded, or in a public-key file that exists
KeyReadable == EmbeddedPresent(embedded) \/ Exists(clientPub)
ResolvedKey == IF EmbeddedPresent(embedded) THEN embedded.v ELSE clientPub

IsRsaSignature(sig) ==
    /\ sig.t = "str"
    /\ sig.v.kind = "b64"
    /\ sig.v.raw.kind = "rsa"

CanonicalPayload(lic) == JsonDumpsSorted(client_get_payload(lic))

\* The signature values of the claim: null, not base64, of the wrong length,
\* made by another private key, or made over another payload
SignatureAbsent(lic) == lic.signature = PyNone
SignatureNotBase64(lic) == lic.signature.t = "str" /\ lic.signature.v.kind # "b64"
SignatureWrongLength(lic) ==
    /\ lic.signature.t = "str"
    /\ lic.signature.v.kind = "b64"
    /\ lic.signature.v.raw.kind # "rsa"
SignatureByOtherKey(lic) ==
    /\ IsRsaSignature(lic.signature)
    /\ ResolvedKey.kind = "pem"
    /\ lic.signature.v.raw.key # ResolvedKey.key
SignatureOverOtherPayload(lic) ==
    /\ IsRsaSignature(lic.signature)
    /\ lic.signature.v.raw.digest # SHA256(CanonicalPayload(lic))

BadSignature(lic) ==
    \/ SignatureAbsent(lic)
    \/ SignatureNotBase64(lic)
    \/ SignatureWrongLength(lic)
    \/ SignatureByOtherKey(lic)
    \/ SignatureOverOtherPayload(lic)

\* C3: signature verification returns false and does not raise for a
\* signature that is null, not base64, of the wrong length, made by a
\* different private key or made over a different payload, and
\* validate_license then returns INVALID_SIGNATURE.
C3_BadSignatureIsFalse ==
    (LoadedOk /\ BadSignature(TheLicense)) =>
        /\ verify_signature(TheLicense, embedded, clientPub).exc = ""
        /\ ~verify_signature(TheLicense, embedded, clientPub).val
        /\ Validated => (last.exc = "" /\ last.status = "INVALID_SIGNATURE")

\* A record with a null signature, validated with no embedded key and no
\* public-key file: the fault of get_public_key escapes
C3_Witness ==
    /\ Validated
    /\ LoadedOk
    /\ SignatureAbsent(TheLicense)
    /\ ~KeyReadable
    /\ last.exc = "FileNotFoundError"

\* The same with a verification key at hand
BadSignatureIsFalseWithKey ==
    (LoadedOk /\ KeyReadable /\ BadSignature(TheLicense)) =>
        /\ verify_signature(TheLicense, embedded, clientPub).exc = ""
        /\ ~verify_signature(TheLicense, embedded, clientPub).val
        /\ Validated => (last.exc = "" /\ last.status = "INVALID_SIGNATURE")

\* A license signed with key A over its own payload, checked with public key B
SignedByAVerifiedWithB ==
    /\ Validated
    /\ LoadedOk
    /\ SignatureByOtherKey(TheLicense)
    /\ ~SignatureOverOtherPayload(TheLicense)
    /\ last.status = "INVALID_SIGNATURE"

\* C4: a license record written by create_license with private key K, loaded
\* by the client and checked with K's public key (from the key file or
\* embedded), passes signature verification, whatever the customer, expiry
\* and bindings, empty lists included.
C4_RoundTrip ==
    (last.op = "create_license" /\ last.exc = "") =>
        LET K == import_key(privFile).val.key
            pub == export_key(K, FALSE)
        IN  /\ LoadedOk
            /\ verify_signature(TheLicense, PyNone, pub).exc = ""
            /\ verify_signature(TheLicense, PyNone, pub).val
            /\ verify_signature(TheLicense, PyStr(pub), Absent).exc = ""
            /\ verify_signature(TheLicense, PyStr(pub), Absent).val

\* A license issued with no mac binding and one host binding
C4_Witness ==
    /\ last.op = "create_license"
    /\ last.exc = ""
    /\ last.lic.bindings.mac.v = <<>>
    /\ last.lic.bindings.host.v # <<>>
    /\ verify_signature(TheLicense, PyNone, pubFile).val

\* What the signature of a record was made over: the fields of the signed
\* canonical payload
SignedPayload(lic) == lic.signature.v.raw.digest.sha256
SignedCustomer(lic) == Lookup(SignedPayload(lic), "customer").v
SignedExpiry(lic) == Lookup(SignedPayload(lic), "expiry").v
SignedList(lic, k) ==
    LET binds == Lookup(SignedPayload(lic), "binds")
    IN  IF HasKey(binds, k) THEN Lookup(binds, k).v ELSE <<>>

CustomerChanged(lic) == lic.customer.v # SignedCustomer(lic)
ExpiryChanged(lic) == lic.expiry.v # SignedExpiry(lic)
MacEntryChanged(lic) == OneEntryApart(lic.bindings.mac.v, SignedList(lic, "mac"))
HostEntryChanged(lic) == OneEntryApart(lic.bindings.host.v, SignedList(lic, "host"))

\* The record carries a signature made over a payload that differs from its
\* own in the customer, the expiry, or one mac or host entry
Tampered ==
    /\ LoadedOk
    /\ IsRsaSignature(TheLicense.signature)
    /\ \/ CustomerChanged(TheLicense)
       \/ ExpiryChanged(TheLicense)
       \/ MacEntryChanged(TheLicense)
       \/ HostEntryChanged(TheLicense)

\* C5: changing the customer, the expiry or one mac or host entry of a
\* correctly signed record while keeping the signature makes signature
\* verification return false, so validate_license returns INVALID_SIGNATURE.
\* (A record is correctly signed with respect to a verification key; the
\* property is stated for every key the verifier can resolve.)
C5_TamperSensitivity ==
    (Tampered /\ KeyReadable) =>
        /\ verify_signature(TheLicense, embedded, clientPub).exc = ""
        /\ ~verify_signature(TheLicense, embedded, clientPub).val
        /\ Validated => (last.exc = "" /\ last.status = "INVALID_SIGNATURE")

\* A record with one mac entry changed, checked with the public key of the
\* key pair that signed it
C5_Witness ==
    /\ Validated
    /\ Tampered
    /\ MacEntryChanged(TheLicense)
    /\ ResolvedKey.kind = "pem"
    /\ TheLicense.signature.v.raw.key = ResolvedKey.key
    /\ last.status = "INVALID_SIGNATURE"

\* C6: the canonical payload the issuer signs is the canonical payload the
\* verifier recomputes from the persisted record, and in both an empty mac or
\* host list is left out of binds.
EmptyListsOmitted(payload, lic) ==
    LET binds == Lookup(payload, "binds")
    IN  /\ HasKey(binds, "mac") <=> lic.bindings.mac.v # <<>>
        /\ HasKey(binds, "host") <=> lic.bindings.host.v # <<>>

C6_CanonicalDeterminism ==
    (last.op = "create_license" /\ last.exc = "") =>
        /\ LoadedOk
        /\ JsonDumpsSorted(server_get_payload(last.lic))
              = JsonDumpsSorted(client_get_payload(TheLicense))
        /\ EmptyListsOmitted(server_get_payload(last.lic), last.lic)
        /\ EmptyListsOmitted(client_get_payload(TheLicense), last.lic)

\* A license issued with a mac binding and no host binding
C6_Witness ==
    /\ last.op = "create_license"
    /\ last.exc = ""
    /\ last.lic.bindings.mac.v # <<>>
    /\ last.lic.bindings.host.v = <<>>
    /\ ~HasKey(Lookup(client_get_payload(TheLicense), "binds"), "host")

----------------------------------------------------------------------------
(* Expiry and bindings *)

\* The run found a valid signature and an expiry date not yet passed
ValidUnexpired ==
    /\ Validated
    /\ SignatureVerifies
    /\ IsDate(TheLicense.expiry.v)
    /\ last.now1 # -1
    /\ last.now1 <= Midnight(DayOf(TheLicense.expiry.v))

\* C7: for a license with a valid signature that is not expired,
\* validate_license returns VALID if and only if (the mac list is empty or
\* the lower-cased local MAC is among the lower-cased allowed MACs) and (the
\* host list is empty or the lower-cased local hostname is among the
\* lower-cased allowed hosts).
C7_BindingEvaluation ==
    ValidUnexpired =>
        /\ last.exc = ""
        /\ \A node \in NodesRead, name \in NamesRead :
              last.status = "VALID" <=> (MacSatisfied(node) /\ HostSatisfied(name))

\* A license bound to AA:BB:CC:DD:EE:FF and to Build-01 is VALID on the
\* machine reporting aa:bb:cc:dd:ee:ff and BUILD-01
C7_Witness ==
    /\ ValidUnexpired
    /\ last.status = "VALID"
    /\ TheLicense.bindings.mac.v = <<PyStr("AA:BB:CC:DD:EE:FF")>>
    /\ get_primary_mac(last.node) = "aa:bb:cc:dd:ee:ff"
    /\ TheLicense.bindings.host.v = <<PyStr("Build-01")>>
    /\ last.hostname = "BUILD-01"

\* C8: a license with a valid signature is reported EXPIRED exactly when the
\* instant the clock gives is strictly later than 00:00 UTC of its expiry
\* date; at that instant and before it, it is not reported EXPIRED.
C8_ExpiryBoundary ==
    (Validated /\ SignatureVerifies /\ IsDate(TheLicense.expiry.v)) =>
        /\ last.exc = ""
        /\ last.now1 # -1
        /\ last.status = "EXPIRED"
              <=> last.now1 > Midnight(DayOf(TheLicense.expiry.v))

\* A run at exactly 00:00 UTC of the expiry date, not reported EXPIRED
C8_Witness ==
    /\ Validated
    /\ SignatureVerifies
    /\ IsDate(TheLicense.expiry.v)
    /\ last.now1 = Midnight(DayOf(TheLicense.expiry.v))
    /\ last.status # "EXPIRED"
    /\ last.exc = ""

\* C9: the third component of the triple validate_license returns is a
\* license object (the one loaded) if and only if the status is VALID,
\* EXPIRED, MAC_MISMATCH or HOSTNAME_MISMATCH; it is absent for
\* FILE_NOT_FOUND, INVALID_FORMAT, INVALID_SIGNATURE and UNKNOWN_ERROR.
StatusesWithLicense == {"VALID", "EXPIRED", "MAC_MISMATCH", "HOSTNAME_MISMATCH"}
StatusesWithout == {"FILE_NOT_FOUND", "INVALID_FORMAT", "INVALID_SIGNATURE", "UNKNOWN_ERROR"}

C9_LicenseObjectIffStatus ==
    (Validated /\ last.exc = "") =>
        /\ last.status \in StatusesWithLicense \cup StatusesWithout
        /\ last.status \in StatusesWithLicense => (LoadedOk /\ last.lic = TheLicense)
        /\ last.status \in StatusesWithout => last.lic = PyNone

\* An EXPIRED outcome carrying the license
C9_Witness ==
    /\ Validated
    /\ last.status = "EXPIRED"
    /\ last.lic = TheLicense

\* C10: when an embedded public key is present the verifier uses it and never
\* reads the public-key file, so the outcome is the same for every content or
\* absence of that file; only when no embedded key is present is the key
\* taken from the file.
AnyPubKeyFile == {Absent, Garbage} \cup {Pem(k, FALSE) : k \in Keys}

\* The outcome of the same run (same readings) had the key file held pubf
SameRunWith(pubf) ==
    validate_license(licFile, embedded, pubf, TRUE,
                     IF last.now1 = -1 THEN 0 ELSE last.now1,
                     IF last.now2 = -1 THEN 0 ELSE last.now2,
                     IF last.node = <<>> THEN CHOOSE n \in Nodes : TRUE ELSE last.node,
                     IF last.hostname = "" THEN CHOOSE h \in HostNames : TRUE
                                            ELSE last.hostname)

C10_KeyPriority ==
    (Validated /\ LoadedOk) =>
        IF EmbeddedPresent(embedded)
        THEN /\ ~last.readPub
             /\ \A pubf \in AnyPubKeyFile : SameRunWith(pubf) = last
        ELSE /\ last.readPub
             /\ (last.exc = "" /\ last.status # "INVALID_SIGNATURE") =>
                   /\ clientPub.kind = "pem"
                   /\ clientPub.key = TheLicense.signature.v.raw.key

\* A VALID run with the signing key embedded and a key file that holds
\* another key
C10_Witness ==
    /\ Validated
    /\ last.status = "VALID"
    /\ EmbeddedPresent(embedded)
    /\ clientPub.kind = "pem"
    /\ clientPub.key # embedded.v.key

----------------------------------------------------------------------------
(* The issuer *)

GenerateKeysCalled == last.op = "none" /\ last'.op = "generate_keys"

\* C11: generate_keys(force=false) with a key pair in place fails with
\* FileExistsError and leaves both key files as they were;
\* generate_keys(force=true) in the same state succeeds and replaces both
\* files with a new pair different from the previous one; from an empty key
\* directory generate_keys(force=false) succeeds, so that a second such call
\* fails.
C11_GenerateKeysForce ==
    [][GenerateKeysCalled =>
        /\ (keys_exist(pubFile, privFile) /\ ~last'.force) =>
              /\ last'.exc = "FileExistsError"
              /\ privFile' = privFile
              /\ pubFile' = pubFile
        /\ (keys_exist(pubFile, privFile) /\ last'.force) =>
              /\ last'.exc = ""
              /\ privFile'.kind = "pem" /\ privFile'.private
              /\ pubFile'.kind = "pem" /\ ~pubFile'.private
              /\ pubFile'.key = privFile'.key
              /\ privFile.kind = "pem" => privFile'.key # privFile.key
              /\ pubFile.kind = "pem" => pubFile'.key # pubFile.key
        /\ (~Exists(pubFile) /\ ~Exists(privFile)) =>
              /\ last'.exc = ""
              /\ keys_exist(pubFile', privFile')
    ]_vars

\* generate_keys(force=true) has replaced an existing pair
C11_Witness ==
    /\ last.op = "generate_keys"
    /\ last.force
    /\ last.existed
    /\ last.exc = ""
    /\ keyCounter >= 2
    /\ privFile = Pem(keyCounter, TRUE)
    /\ pubFile = Pem(keyCounter, FALSE)

CreateLicenseCalled == last.op = "none" /\ last'.op = "create_license"

\* C12: create_license fails with the keys-not-found error if no private key
\* exists, and then writes no license file and produces no signature: the
\* check comes before anything is built or persisted.
C12_KeysNotFound ==
    [][(CreateLicenseCalled /\ ~Exists(privFile)) =>
        /\ last'.exc = "FileNotFoundError"
        /\ last'.msg = KeysNotFound
        /\ last'.lic = PyNone
        /\ licFile' = licFile
    ]_vars

\* create_license has failed with the public key in place, the private key
\* missing and an earlier license at the path
C12_Witness ==
    /\ last.op = "create_license"
    /\ last.exc = "FileNotFoundError"
    /\ ~Exists(privFile)
    /\ Exists(pubFile)
    /\ Exists(licFile)

VerifyLicenseCalled == last.op = "none" /\ last'.op = "verify_license"

\* The record at the license path parses and carries a signature made by the
\* private half of the issuer's pub.pem over the record's own payload
IssuerSignatureOk ==
    /\ LoadedOk
    /\ pubFile.kind = "pem"
    /\ IsRsaSignature(TheLicense.signature)
    /\ TheLicense.signature.v.raw.key = pubFile.key
    /\ TheLicense.signature.v.raw.digest = SHA256(CanonicalPayload(TheLicense))

\* What verify_license returned is decided by the signature and then the
\* expiry, and by nothing else
SignatureThenExpiryOnly ==
    last.op = "verify_license" =>
        /\ last.exc = ""
        /\ IF ~IssuerSignatureOk
           THEN ~last.is_valid /\ last.now = -1
           ELSE /\ last.now # -1
                /\ last.is_valid <=>
                      /\ IsDate(TheLicense.expiry.v)
                      /\ last.now <= Midnight(DayOf(TheLicense.expiry.v))

\* C13: the issuer's verify_license checks the signature and then the expiry
\* only: its result does not depend on the license's bindings or on the
\* machine it runs on, it returns (False, message) instead of raising on any
\* load, parse, key or crypto failure, and it changes neither the license
\* file nor the key files.
C13_IssuerVerifyLicense ==
    /\ []SignatureThenExpiryOnly
    /\ [][VerifyLicenseCalled =>
            /\ licFile' = licFile
            /\ privFile' = privFile
            /\ pubFile' = pubFile]_vars

\* A license bound to a MAC and a hostname, found valid by the issuer
C13_Witness ==
    /\ last.op = "verify_license"
    /\ last.is_valid
    /\ TheLicense.bindings.mac.v # <<>>
    /\ TheLicense.bindings.host.v # <<>>

\* verify_license turning a fault into (False, message): a record without
\* payload, a missing pub.pem, a null signature, an expiry that is no date
IssuerVerifyFaultReported ==
    /\ last.op = "verify_license"
    /\ ~last.is_valid
    /\ last.msg[1] = "Verification error: {}"

----------------------------------------------------------------------------
(* The client application *)

\* The exit codes the claim lists
ClaimedExitCode(status) ==
    CASE status = "VALID" -> 0
      [] status = "FILE_NOT_FOUND" -> 2
      [] status = "INVALID_SIGNATURE" -> 3
      [] status = "EXPIRED" -> 4
      [] status = "MAC_MISMATCH" -> 5
      [] status = "HOSTNAME_MISMATCH" -> 6
      [] status = "INVALID_FORMAT" -> 7
      [] status = "UNKNOWN_ERROR" -> 99

RunOver == last.op = "run" /\ last.pc = "exited"

\* C14: the exit code of the client's process is the numeric value of the
\* status validate_license returned: 0 for VALID, and 2, 3, 4, 5, 6, 7, 99
\* for FILE_NOT_FOUND, INVALID_SIGNATURE, EXPIRED, MAC_MISMATCH,
\* HOSTNAME_MISMATCH, INVALID_FORMAT, UNKNOWN_ERROR.
C14_ExitCodeIsStatus ==
    (RunOver /\ last.exc = "") =>
        /\ last.exit_code = ClaimedExitCode(last.status)
        /\ last.exit_code = 0 <=> last.status = "VALID"

\* A run that ended on a hostname mismatch, with exit code 6
C14_Witness ==
    /\ RunOver
    /\ last.status = "HOSTNAME_MISMATCH"
    /\ last.exit_code = 6

\* C15: the business logic, protected or fallback, is executed only after
\* validate_license has returned VALID in the same run; with any other
\* status the run ends without loading the protected module and without
\* executing business logic.
C15_Gating ==
    last.op = "run" =>
        /\ last.executed # "none" => (last.exc = "" /\ last.status = "VALID")
        /\ (last.exc = "" /\ last.status # "VALID") =>
              /\ last.pc = "exited"
              /\ last.executed = "none"
              /\ ~last.loaded
              /\ ~last.imported

\* A run that imported core.protected_module for the embedded key and then
\* ended on a status other than VALID
C15_Witness ==
    /\ RunOver
    /\ last.exc = ""
    /\ last.status = "FILE_NOT_FOUND"
    /\ last.imported
    /\ last.executed = "none"

\* The execution alone: business logic runs, and _load_protected_module is
\* reached, only after VALID
BusinessLogicGated ==
    last.op = "run" =>
        /\ last.executed # "none" => (last.exc = "" /\ last.status = "VALID")
        /\ last.pc \in {"loaded"} \/ last.loaded => (last.exc = "" /\ last.status = "VALID")
        /\ (last.exc # "" \/ last.status # "VALID") => (last.pc = "exited" /\ last.executed = "none")

----------------------------------------------------------------------------
(* Load failures, messages, disclosure, the day count *)

\* The file holds JSON that is no record: no payload object, or a payload
\* without customer or without expiry
LacksRequiredField(f) ==
    /\ f.kind = "json"
    /\ \/ f.doc.t # "dict"
       \/ ~HasKey(f.doc, "payload")
       \/ /\ HasKey(f.doc, "payload")
          /\ \/ Lookup(f.doc, "payload").t # "dict"
             \/ ~HasKey(Lookup(f.doc, "payload"), "customer")
             \/ ~HasKey(Lookup(f.doc, "payload"), "expiry")

NotParseableRecord(f) == f = NotJson \/ LacksRequiredField(f)

\* C16: whenever the license source exists but is no parseable record (not
\* valid JSON, or JSON lacking the payload object or its customer or expiry
\* field), validate_license returns INVALID_FORMAT with no license object,
\* before any cryptographic work.
C16_InvalidFormat ==
    (Validated /\ NotParseableRecord(licFile)) =>
        /\ last.exc = ""
        /\ last.status = "INVALID_FORMAT"
        /\ last.lic = PyNone
        /\ ~last.readPub

\* A JSON object without payload, reported as UNKNOWN_ERROR
C16_Witness ==
    /\ Validated
    /\ licFile = JsonFile(PyDict(<<>>))
    /\ last.status = "UNKNOWN_ERROR"

\* What does hold of a source that is no parseable record: text that is not
\* JSON gives INVALID_FORMAT, a missing field gives UNKNOWN_ERROR, and
\* neither carries a license or touches a key
UnparseableRecordRejected ==
    (Validated /\ NotParseableRecord(licFile)) =>
        /\ last.exc = ""
        /\ last.status = IF licFile = NotJson THEN "INVALID_FORMAT" ELSE "UNKNOWN_ERROR"
        /\ last.lic = PyNone
        /\ ~last.readPub

\* A message is its format and the values put into its {} places, in order
MessageIs(msg, format, args) == msg = <<format>> \o args

\* C17: the message of validate_license carries the context of its status:
\* the expiry date for EXPIRED; the local MAC (hostname) the binding check
\* rejected and the allowed list for MAC_MISMATCH (HOSTNAME_MISMATCH); the
\* customer and the number of days remaining for VALID.
C17_MessageContext ==
    (Validated /\ last.exc = "") =>
        /\ last.status = "EXPIRED" =>
              MessageIs(last.msg, "License expired on {}", <<TheLicense.expiry.v>>)
        /\ last.status = "MAC_MISMATCH" =>
              /\ ~MacSatisfied(last.node)
              /\ MessageIs(last.msg, "MAC mismatch. Current: {}, Allowed: {}",
                           <<get_primary_mac(last.node), TheLicense.bindings.mac.v>>)
        /\ last.status = "HOSTNAME_MISMATCH" =>
              /\ ~HostSatisfied(last.hostname)
              /\ MessageIs(last.msg, "Hostname mismatch. Current: {}, Allowed: {}",
                           <<Lower(last.hostname), TheLicense.bindings.host.v>>)
        /\ last.status = "VALID" =>
              MessageIs(last.msg, "License valid for {}. Expires in {} days.",
                        <<TheLicense.customer.v,
                          (Midnight(DayOf(TheLicense.expiry.v)) - last.now2) \div TicksPerDay>>)

\* A license bound to AA:BB:CC:DD:EE:FF on the machine 11:22:33:44:55:66:
\* the message names both
C17_Witness ==
    /\ Validated
    /\ last.status = "MAC_MISMATCH"
    /\ last.msg[2] = "11:22:33:44:55:66"
    /\ last.msg[3] = <<PyStr("AA:BB:CC:DD:EE:FF")>>

----------------------------------------------------------------------------
(* Concurrent key generation *)

\* C18: generate_keys makes its existence check and its two key-file writes
\* in separate steps: the step that passes the check writes nothing and no
\* step writes both files.  (With two invocations side by side this leaves
\* room for both to pass the check and both to write, and for the two files
\* on disk to come from different key pairs: C18_Witness.)
C18_SeparateSteps ==
    [][/\ \A p \in Procs :
            (genCalls[p].pc = "idle" /\ genCalls'[p].pc # "idle") =>
                (privFile' = privFile /\ pubFile' = pubFile)
       /\ privFile' # privFile => pubFile' = pubFile
       /\ pubFile' # pubFile => privFile' = privFile
    ]_vars

\* Two generate_keys(force=false) invocations have both passed the check and
\* both written, and priv.pem and pub.pem hold halves of different pairs
C18_Witness ==
    /\ \A p \in Procs : genCalls[p].pc = "done" /\ ~genCalls[p].force
    /\ privFile.kind = "pem"
    /\ pubFile.kind = "pem"
    /\ privFile.key # pubFile.key

----------------------------------------------------------------------------
(* Nothing before the signature is trusted *)

\* The run consulted neither the clock nor the machine identity
NothingConsulted ==
    /\ last.now1 = -1
    /\ last.now2 = -1
    /\ last.node = <<>>
    /\ last.hostname = ""

\* The run returned (INVALID_SIGNATURE, the fixed message, no license object)
InvalidSignatureTriple ==
    /\ last.exc = ""
    /\ last.status = "INVALID_SIGNATURE"
    /\ last.msg = <<"Invalid license signature">>
    /\ last.lic = PyNone

\* C19: for a parsed license whose signature does not verify,
\* validate_license returns the same triple (INVALID_SIGNATURE, the fixed
\* message, no license object) whatever the license's expiry and bindings
\* and whatever the clock, local MAC and local hostname are, and it queries
\* neither the clock nor the machine identity.
C19_NothingBeforeSignature ==
    (Validated /\ LoadedOk /\ SignatureFails) =>
        (InvalidSignatureTriple /\ NothingConsulted)

\* A parsed license whose signature cannot be verified for want of any
\* public key: the run ends in FileNotFoundError, no triple is returned
C19_Witness ==
    /\ Validated
    /\ LoadedOk
    /\ SignatureFails
    /\ ~KeyReadable
    /\ last.exc = "FileNotFoundError"

\* What does hold: no such run consults the clock or the machine, and where
\* a public key is readable the triple is returned
UntrustedSignatureDisclosesNothing ==
    (Validated /\ LoadedOk /\ SignatureFails) =>
        /\ NothingConsulted
        /\ KeyReadable => InvalidSignatureTriple

\* A machine-bound license that fails the expiry check at every clock value
\* and whose signature fails under a readable key is answered with the triple
UntrustedExpiredBoundRejected ==
    /\ Validated
    /\ LoadedOk
    /\ SignatureFails
    /\ KeyReadable
    /\ InvalidSignatureTriple
    /\ TheLicense.bindings.mac.v # <<>>
    /\ \A now \in Clock : ExpiryFails(now)

----------------------------------------------------------------------------
(* The day count of a VALID answer *)

ReturnedValid == Validated /\ last.exc = "" /\ last.status = "VALID"

\* The day count validate_license put in its VALID message
DaysLeft == last.msg[3]

\* C20: whenever validate_license returns VALID, the day count in its
\* message is non-negative, even though is_expired and days_until_expiry
\* each read the clock and the clock may advance between the two reads.
C20_NonNegativeDays == ReturnedValid => DaysLeft >= 0

\* VALID with a negative day count: is_expired read the clock at 00:00 UTC
\* of the expiry date and days_until_expiry read it later
C20_Witness ==
    /\ ReturnedValid
    /\ DaysLeft < 0
    /\ last.now1 = Midnight(DayOf(TheLicense.expiry.v))
    /\ last.now2 > last.now1

\* What does hold: the day count is negative exactly when the clock passed
\* the expiry instant between the two reads
DaysNonNegativeUnlessClockPassedExpiry ==
    ReturnedValid =>
        /\ last.now1 <= Midnight(DayOf(TheLicense.expiry.v))
        /\ DaysLeft < 0 <=> last.now2 > Midnight(DayOf(TheLicense.expiry.v))

----------------------------------------------------------------------------
(* Key generation without force, in every state of the key directory *)

\* C21: generate_keys(force=false) never modifies a key file that already
\* exists: in every starting state of the key directory, including the
\* states where only the private-key file or only the public-key file
\* exists, every key file present before the call has the same content
\* after it.
C21_ExistingKeyFilesKept ==
    [][(GenerateKeysCalled /\ ~last'.force) =>
        /\ Exists(privFile) => privFile' = privFile
        /\ Exists(pubFile) => pubFile' = pubFile
    ]_vars

\* generate_keys(force=false) has succeeded where only the private-key file
\* existed, and priv.pem now holds the new pair's private key
C21_Witness ==
    /\ last.op = "generate_keys"
    /\ ~last.force
    /\ last.exc = ""
    /\ last.hadPriv
    /\ ~last.hadPub
    /\ privFile = Pem(keyCounter, TRUE)
    /\ pubFile = Pem(keyCounter, FALSE)

\* What does hold: without force an existing key file is replaced exactly
\* when the other file of the pair is missing
LoneKeyFileReplaced ==
    [][(GenerateKeysCalled /\ ~last'.force) =>
        /\ (Exists(privFile) /\ privFile' # privFile) <=>
              (Exists(privFile) /\ ~Exists(pubFile))
        /\ (Exists(pubFile) /\ pubFile' # pubFile) <=>
              (Exists(pubFile) /\ ~Exists(privFile))
    ]_vars

\* The same with only the public-key file in place before the call
LonePublicKeyReplaced ==
    /\ last.op = "generate_keys"
    /\ ~last.force
    /\ last.exc = ""
    /\ last.hadPub
    /\ ~last.hadPriv
    /\ pubFile = Pem(keyCounter, FALSE)

====
